---- MODULE Spec2Model ----
(***************************************************************************)
(* Model of custom_components/dobiss_can/light.py: the DobissLight         *)
(* entities of one CAN bus, the shared asyncio.Lock that serialises the    *)
(* GET cycle (async_update), the fire-and-forget SET commands and the      *)
(* fan-out of inbound frames to every entity's on_can_message_received.    *)
(*                                                                         *)
(* Everything runs on one asyncio event loop (can.Notifier is given        *)
(* loop=loop), so an action is the code between two suspension points.     *)
(***************************************************************************)
EXTENDS Integers, Sequences, FiniteSets, TLC

\* ---- bounds ----
NumTasks == 3
MaxState == 2

\* ---- protocol constants ----
SET_REPLY_ID == 196353
GET_REPLY_ID == 33423105
GET_ID == 33357569
SET_BASE_ID == 33292290
CAN_MASK == 536870911
FILL == 255

\* the configuration of the module's example: CONF_LIGHTS as (module, relay)
\* pairs, WC on (1, 0) and Bedroom on (1, 1)
Lights == << <<1, 0>>, <<1, 1>> >>
\* an address on the bus that no configured entity has
Unconfigured == <<2, 0>>

Devices == DOMAIN Lights

Module(d) == Lights[d][1]
Relay(d) == Lights[d][2]

RECURSIVE BitOr(_, _)
BitOr(a, b) ==
    IF a = 0 THEN b
    ELSE IF b = 0 THEN a
    ELSE (IF a % 2 = 1 \/ b % 2 = 1 THEN 1 ELSE 0) + 2 * BitOr(a \div 2, b \div 2)

RECURSIVE BitAnd(_, _)
BitAnd(a, b) ==
    IF a = 0 \/ b = 0 THEN 0
    ELSE (IF a % 2 = 1 /\ b % 2 = 1 THEN 1 ELSE 0) + 2 * BitAnd(a \div 2, b \div 2)

Msg(id, data) == [id |-> id, data |-> data]
NoMsg == Msg(0, <<>>)

\* DobissLight.__init__: the fixed ids and payloads of one entity
SetIds == [d \in Devices |-> BitOr(SET_BASE_ID, Module(d) * 256)]
SetId(d) == SetIds[d]
BytesOff(d) == <<Module(d), Relay(d), 0, FILL, FILL>>
BytesOn(d) == <<Module(d), Relay(d), 1, FILL, FILL>>
BytesStatus(d) == <<Module(d), Relay(d)>>

VARIABLES
    is_on,      \* is_on[d]: DobissLight._is_on
    awaiting,   \* awaiting[d]: DobissLight._awaiting_update
    event,      \* event[d]: DobissLight._event_update is set
    locked,     \* asyncio.Lock._locked of the bus lock
    calls,      \* the async_update calls in progress, oldest first: each with
                \* its entity (dev), the point where it is suspended (pc) and
                \* the entity's is_on when it entered the body (was_on)
    last,       \* what the most recent step did, as seen from outside
    outstanding,\* a GET query was sent and since then no GET reply was
                \* accepted and no wait_for timed out
    closed,     \* bus.shutdown() has run
    inflight,   \* the frame the Notifier had taken from the bus but not yet
                \* handed to the entities when the bus was shut down
    acks        \* per address pair, the state byte of the last reply to SET
                \* (kept only by the specification that starts it non-empty)

vars == <<is_on, awaiting, event, locked, calls, last, outstanding, closed, inflight, acks>>

\* a record of one step: the operation, the call and entity it belongs to, the
\* frame it put on the bus (tx) or took from it (rx), what the caller got back,
\* and the entities whose is_on setter ran
Step(op, i, d, tx, rx, result, notified) ==
    [op |-> op, call |-> i, dev |-> d, tx |-> tx, rx |-> rx,
     result |-> result, notified |-> notified, after |-> <<"none", 0>>]

\* the SET command, if any, that was sent in the step right before the
\* delivery of the reply to SET msg
Command(msg) ==
    IF msg.id = SET_REPLY_ID /\ last.op \in {"turn_on", "turn_off"} /\ last.result = "ok"
    THEN <<last.op, last.dev>> ELSE <<"none", 0>>

\* the state after async_setup_platform, but for the log of replies to SET
Constructed ==
    /\ is_on = [d \in Devices |-> FALSE]
    /\ awaiting = [d \in Devices |-> FALSE]
    /\ event = [d \in Devices |-> FALSE]
    /\ locked = FALSE
    /\ calls = <<>>
    /\ last = Step("init", 0, 0, NoMsg, NoMsg, "none", {})
    /\ outstanding = FALSE
    /\ closed = FALSE
    /\ inflight = NoMsg

Init ==
    /\ Constructed
    /\ acks = [p \in {} |-> 0]

\* ---- the bus lock (asyncio.Lock used through "async with") ----

Call(d, p) == [dev |-> d, pc |-> p, was_on |-> FALSE]

\* asyncio.Lock._waiters: the calls suspended in acquire(). They queue in the
\* order they called, so the first of them in calls is the head of the queue.
\* "lockwait": the future is pending; "woken": release() has set its result.
QueuedIn(cs) == {i \in DOMAIN cs : cs[i].pc \in {"lockwait", "woken"}}
Queued == QueuedIn(calls)
FirstIn(q) == CHOOSE i \in q : \A j \in q : i <= j

\* acquire() takes the lock without suspending
CanAcquireAlways == TRUE
CanAcquire == ~locked /\ Queued = {}

\* the calls once call i has returned
Remove(i) == [j \in 1..(Len(calls) - 1) |-> IF j < i THEN calls[j] ELSE calls[j + 1]]

NoWake(cs) == cs
\* release() wakes the first waiter
WakeFirst(cs) ==
    IF QueuedIn(cs) = {} THEN cs
    ELSE [cs EXCEPT ![FirstIn(QueuedIn(cs))].pc = "woken"]

LeaveNoClear(i, result) ==
    /\ locked' = FALSE
    /\ calls' = WakeFirst(Remove(i))
    /\ last' = Step("update_return", i, calls[i].dev, NoMsg, NoMsg, result, {})
    /\ outstanding' = IF result = "timeout" THEN FALSE ELSE outstanding
    /\ UNCHANGED <<is_on, event, awaiting, closed, inflight, acks>>

\* the finally clause followed by __aexit__ of the lock; the call returns
Leave(i, result) ==
    /\ awaiting' = [awaiting EXCEPT ![calls[i].dev] = FALSE]
    /\ locked' = FALSE
    /\ calls' = WakeFirst(Remove(i))
    /\ last' = Step("update_return", i, calls[i].dev, NoMsg, NoMsg, result, {})
    /\ outstanding' = IF result = "timeout" THEN FALSE ELSE outstanding
    /\ UNCHANGED <<is_on, event, closed, inflight, acks>>

\* ---- async_update ----

\* async_update is called: the lock is taken at once, or the call queues
UpdateCall(d) ==
    /\ Len(calls) < NumTasks
    /\ IF CanAcquire
       THEN /\ locked' = TRUE
            /\ awaiting' = [awaiting EXCEPT ![d] = TRUE]
            /\ calls' = Append(calls, [Call(d, "sleep1") EXCEPT !.was_on = is_on[d]])
            /\ last' = Step("update_enter", Len(calls) + 1, d, NoMsg, NoMsg, "none", {})
       ELSE /\ calls' = Append(calls, Call(d, "lockwait"))
            /\ last' = Step("update_queue", Len(calls) + 1, d, NoMsg, NoMsg, "none", {})
            /\ UNCHANGED <<locked, awaiting>>
    /\ UNCHANGED <<is_on, event, outstanding, closed, inflight, acks>>

UpdateAcquireUnwoken(i) ==
    /\ calls[i].pc \in {"lockwait", "woken"}
    /\ locked' = TRUE
    /\ awaiting' = [awaiting EXCEPT ![calls[i].dev] = TRUE]
    /\ calls' = [calls EXCEPT ![i].pc = "sleep1", ![i].was_on = is_on[calls[i].dev]]
    /\ last' = Step("update_enter", i, calls[i].dev, NoMsg, NoMsg, "none", {})
    /\ UNCHANGED <<is_on, event, outstanding, closed, inflight, acks>>

\* a woken waiter resumes inside acquire(), takes the lock and enters the body
UpdateAcquire(i) ==
    /\ calls[i].pc = "woken"
    /\ locked' = TRUE
    /\ awaiting' = [awaiting EXCEPT ![calls[i].dev] = TRUE]
    /\ calls' = [calls EXCEPT ![i].pc = "sleep1", ![i].was_on = is_on[calls[i].dev]]
    /\ last' = Step("update_enter", i, calls[i].dev, NoMsg, NoMsg, "none", {})
    /\ UNCHANGED <<is_on, event, outstanding, closed, inflight, acks>>

UpdateSendOutsideTry(i, ok) ==
    /\ calls[i].pc = "sleep1"
    /\ closed => ~ok
    /\ IF ok
       THEN /\ calls' = [calls EXCEPT ![i].pc = "wait"]
            /\ outstanding' = TRUE
            /\ last' = Step("update_send", i, calls[i].dev,
                            Msg(GET_ID, BytesStatus(calls[i].dev)), NoMsg, "none", {})
            /\ UNCHANGED <<is_on, awaiting, event, locked, closed, inflight, acks>>
       ELSE LeaveNoClear(i, "fault")

\* after the first settle delay: bus.send of the GET frame, then wait_for;
\* an exception of bus.send leaves through the finally
UpdateSend(i, ok) ==
    /\ calls[i].pc = "sleep1"
    /\ closed => ~ok
    /\ IF ok
       THEN /\ calls' = [calls EXCEPT ![i].pc = "wait"]
            /\ outstanding' = TRUE
            /\ last' = Step("update_send", i, calls[i].dev,
                            Msg(GET_ID, BytesStatus(calls[i].dev)), NoMsg, "none", {})
            /\ UNCHANGED <<is_on, awaiting, event, locked, closed, inflight, acks>>
       ELSE Leave(i, "fault")

\* wait_for returns because the event is set; second settle delay starts
UpdateReply(i) ==
    /\ calls[i].pc = "wait"
    /\ event[calls[i].dev]
    /\ calls' = [calls EXCEPT ![i].pc = "sleep2"]
    /\ last' = Step("update_reply", i, calls[i].dev, NoMsg, NoMsg, "none", {})
    /\ UNCHANGED <<is_on, awaiting, event, locked, outstanding, closed, inflight, acks>>

UpdateWaitForever(i) ==
    /\ calls[i].pc = "wait"
    /\ FALSE
    /\ UNCHANGED vars

UpdateTimeoutResets(i) ==
    /\ calls[i].pc = "wait"
    /\ ~event[calls[i].dev]
    /\ is_on' = [is_on EXCEPT ![calls[i].dev] = FALSE]
    /\ awaiting' = [awaiting EXCEPT ![calls[i].dev] = FALSE]
    /\ locked' = FALSE
    /\ calls' = WakeFirst(Remove(i))
    /\ last' = Step("update_return", i, calls[i].dev, NoMsg, NoMsg, "timeout", {})
    /\ outstanding' = FALSE
    /\ UNCHANGED <<event, closed, inflight, acks>>

\* wait_for raises TimeoutError after 0.5 s without the event
UpdateTimeout(i) ==
    /\ calls[i].pc = "wait"
    /\ ~event[calls[i].dev]
    /\ Leave(i, "timeout")

\* after the second settle delay: normal exit
UpdateDone(i) ==
    /\ calls[i].pc = "sleep2"
    /\ Leave(i, "ok")

\* ---- async_turn_on / async_turn_off ----

SetMsg(d, on) == Msg(SetId(d), IF on THEN BytesOn(d) ELSE BytesOff(d))

TurnOnUnderLock(d, ok) ==
    /\ ~locked
    /\ closed => ~ok
    /\ last' = Step("turn_on", 0, d, IF ok THEN SetMsg(d, TRUE) ELSE NoMsg, NoMsg,
                    IF ok THEN "ok" ELSE "fault", {})
    /\ UNCHANGED <<is_on, awaiting, event, locked, calls, outstanding, closed, inflight, acks>>

\* bus.send of the SET frame; CanError goes to the caller
TurnOn(d, ok) ==
    /\ closed => ~ok
    /\ last' = Step("turn_on", 0, d, IF ok THEN SetMsg(d, TRUE) ELSE NoMsg, NoMsg,
                    IF ok THEN "ok" ELSE "fault", {})
    /\ UNCHANGED <<is_on, awaiting, event, locked, calls, outstanding, closed, inflight, acks>>

TurnOffOptimistic(d, ok) ==
    /\ closed => ~ok
    /\ last' = Step("turn_off", 0, d, IF ok THEN SetMsg(d, FALSE) ELSE NoMsg, NoMsg,
                    IF ok THEN "ok" ELSE "fault", {})
    /\ is_on' = [is_on EXCEPT ![d] = FALSE]
    /\ UNCHANGED <<awaiting, event, locked, calls, outstanding, closed, inflight, acks>>

TurnOff(d, ok) ==
    /\ closed => ~ok
    /\ last' = Step("turn_off", 0, d, IF ok THEN SetMsg(d, FALSE) ELSE NoMsg, NoMsg,
                    IF ok THEN "ok" ELSE "fault", {})
    /\ UNCHANGED <<is_on, awaiting, event, locked, calls, outstanding, closed, inflight, acks>>

\* ---- inbound frames ----

\* can_filters of can.Bus: a frame passes when it matches one filter under its mask
FilterMatch(id, can_id) == BitAnd(id, CAN_MASK) = BitAnd(can_id, CAN_MASK)

SetReplyMatchModule(d, msg) ==
    /\ msg.id = SET_REPLY_ID
    /\ msg.data[1] = Module(d)

\* on_can_message_received, first test: reply to SET
SetReplyMatch(d, msg) ==
    /\ msg.id = SET_REPLY_ID
    /\ msg.data[1] = Module(d)
    /\ msg.data[2] = Relay(d)

SetReplyStateRelayByte(msg) == msg.data[2] = 1
SetReplyState(msg) == msg.data[3] = 1

GetReplyMatchAny(d, msg) == msg.id = GET_REPLY_ID

\* on_can_message_received, second test: reply to GET
GetReplyMatch(d, msg) ==
    /\ msg.id = GET_REPLY_ID
    /\ awaiting[d]

GetReplyState(msg) == msg.data[1] = 1

IsOnAfterSticky(d, msg) ==
    LET a == IF SetReplyMatch(d, msg) /\ SetReplyState(msg) THEN TRUE ELSE is_on[d]
    IN  IF GetReplyMatch(d, msg) THEN GetReplyState(msg) ELSE a

\* is_on of entity d once its on_can_message_received has run on msg
IsOnAfter(d, msg) ==
    LET a == IF SetReplyMatch(d, msg) THEN SetReplyState(msg) ELSE is_on[d]
    IN  IF GetReplyMatch(d, msg) THEN GetReplyState(msg) ELSE a

EventAfter(d, msg) == IF GetReplyMatch(d, msg) THEN TRUE ELSE event[d]

\* the is_on setter ran for d
Notified(d, msg) == SetReplyMatch(d, msg) \/ GetReplyMatch(d, msg)

\* frames that can appear on the bus
AddressPairs == {<<Module(d), Relay(d)>> : d \in Devices} \cup {Unconfigured}
SetReplies == {Msg(SET_REPLY_ID, <<p[1], p[2], s>>) : p \in AddressPairs, s \in 0..MaxState}
GetReplies == {Msg(GET_REPLY_ID, <<s>>) : s \in 0..MaxState}
OwnFrames == {SetMsg(1, TRUE), Msg(GET_ID, BytesStatus(1))}
BusFrames == SetReplies \cup GetReplies \cup OwnFrames

Accepted == {msg \in BusFrames : FilterMatch(msg.id, SET_REPLY_ID) \/ FilterMatch(msg.id, GET_REPLY_ID)}
PassesFilter(msg) == msg \in Accepted

\* the log of replies to SET after msg, by the address in the payload
AcksAfter(msg) ==
    [p \in DOMAIN acks |->
        IF msg.id = SET_REPLY_ID /\ p = <<msg.data[1], msg.data[2]>>
        THEN msg.data[3] ELSE acks[p]]

\* can.Notifier calls on_can_message_received of every entity with msg
Dispatch(msg) ==
    /\ is_on' = [d \in Devices |-> IsOnAfter(d, msg)]
    /\ event' = [d \in Devices |-> EventAfter(d, msg)]
    /\ last' = [Step("deliver", 0, 0, NoMsg, msg, "none",
                     {d \in Devices : Notified(d, msg)}) EXCEPT !.after = Command(msg)]
    /\ outstanding' = IF \E d \in Devices : GetReplyMatch(d, msg) THEN FALSE ELSE outstanding
    /\ acks' = AcksAfter(msg)
    /\ UNCHANGED <<awaiting, locked, calls>>

\* can.Notifier: a frame that passed the filter is handed to every entity
Deliver(msg) ==
    /\ ~closed
    /\ PassesFilter(msg)
    /\ Dispatch(msg)
    /\ UNCHANGED <<closed, inflight>>

FilteredButHandled(msg) ==
    /\ ~closed
    /\ ~PassesFilter(msg)
    /\ event' = [d \in Devices |-> awaiting[d] \/ event[d]]
    /\ last' = Step("filtered", 0, 0, NoMsg, msg, "none", {d \in Devices : awaiting[d]})
    /\ UNCHANGED <<is_on, awaiting, locked, calls, outstanding, closed, inflight, acks>>

\* a frame that the filter rejects never reaches the Notifier
Filtered(msg) ==
    /\ ~closed
    /\ ~PassesFilter(msg)
    /\ last' = Step("filtered", 0, 0, NoMsg, msg, "none", {})
    /\ UNCHANGED <<is_on, awaiting, event, locked, calls, outstanding, closed, inflight, acks>>

Next ==
    \/ \E d \in Devices : UpdateCall(d)
    \/ \E i \in DOMAIN calls : UpdateAcquire(i)
    \/ \E i \in DOMAIN calls, ok \in BOOLEAN : UpdateSend(i, ok)
    \/ \E i \in DOMAIN calls : UpdateReply(i)
    \/ \E i \in DOMAIN calls : UpdateTimeout(i)
    \/ \E i \in DOMAIN calls : UpdateDone(i)
    \/ \E d \in Devices, ok \in BOOLEAN : TurnOn(d, ok)
    \/ \E d \in Devices, ok \in BOOLEAN : TurnOff(d, ok)
    \/ \E msg \in BusFrames : Deliver(msg)
    \/ \E msg \in BusFrames : Filtered(msg)

Spec == Init /\ [][Next]_vars

\* ---- shutdown ----

\* stop(): bus.shutdown(). The Notifier is not stopped: a frame msg it had taken
\* from the bus (NoMsg: none) is still queued on the event loop.
Stop(msg) ==
    /\ ~closed
    /\ closed' = TRUE
    /\ inflight' = msg
    /\ last' = Step("stop", 0, 0, NoMsg, NoMsg, "none", {})
    /\ UNCHANGED <<is_on, awaiting, event, locked, calls, outstanding, acks>>

\* the queued callback of the Notifier runs after the shutdown
DispatchPending ==
    /\ closed
    /\ inflight # NoMsg
    /\ Dispatch(inflight)
    /\ inflight' = NoMsg
    /\ UNCHANGED closed

NextStop ==
    \/ Next
    \/ \E msg \in Accepted \cup {NoMsg} : Stop(msg)
    \/ DispatchPending

\* operation followed by the shutdown hook
SpecStop == Init /\ [][NextStop]_vars

\* ---- replies to SET only, with their log ----

InitAcks ==
    /\ Constructed
    /\ acks = [p \in AddressPairs |-> -1]

NextAcks ==
    \/ \E d \in Devices, ok \in BOOLEAN : TurnOn(d, ok)
    \/ \E d \in Devices, ok \in BOOLEAN : TurnOff(d, ok)
    \/ \E msg \in BusFrames : Deliver(msg)
    \/ \E msg \in BusFrames : Filtered(msg)

\* no async_update is ever called
SpecAcks == InitAcks /\ [][NextAcks]_vars

\* ---- scheduling ----

\* the event loop runs every task that is ready and fires every timer
FairSpec ==
    /\ Spec
    /\ WF_vars(\E i \in DOMAIN calls : UpdateAcquire(i))
    /\ WF_vars(\E i \in DOMAIN calls, ok \in BOOLEAN : UpdateSend(i, ok))
    /\ WF_vars(\E i \in DOMAIN calls : UpdateReply(i))
    /\ WF_vars(\E i \in DOMAIN calls : UpdateTimeout(i))
    /\ WF_vars(\E i \in DOMAIN calls : UpdateDone(i))

TypeOK ==
    /\ is_on \in [Devices -> BOOLEAN]
    /\ awaiting \in [Devices -> BOOLEAN]
    /\ event \in [Devices -> BOOLEAN]
    /\ locked \in BOOLEAN
    /\ Len(calls) <= NumTasks
    /\ \A i \in DOMAIN calls :
         /\ calls[i].dev \in Devices
         /\ calls[i].pc \in {"lockwait", "woken", "sleep1", "wait", "sleep2"}
         /\ calls[i].was_on \in BOOLEAN
    /\ outstanding \in BOOLEAN
    /\ closed \in BOOLEAN

\* ---- shorthands for the properties ----

InCritical(i) == calls[i].pc \in {"sleep1", "wait", "sleep2"}
Holders == {i \in DOMAIN calls : InCritical(i)}
IsGetReply(msg) == msg.id = GET_REPLY_ID
IsSetReply(msg) == msg.id = SET_REPLY_ID

\* C1: at most one async_update call is between taking and releasing the bus
\* lock, whatever the number of concurrent calls and their entities.
C1_MutualExclusion == Cardinality(Holders) <= 1

\* three calls are in progress at once, on both entities: one inside the
\* critical section, two queued on the lock
C1_Witness ==
    /\ Cardinality(Holders) = 1
    /\ Cardinality(Queued) >= 2
    /\ {calls[i].dev : i \in DOMAIN calls} = Devices

\* C2: at most one entity has _awaiting_update set.
C2_OneAwaiting == Cardinality({d \in Devices : awaiting[d]}) <= 1

\* an entity is awaiting, a call on another entity is queued, and a GET reply
\* has just been handed to the entities
C2_Witness ==
    /\ \E d \in Devices : awaiting[d] /\ \E i \in Queued : calls[i].dev # d
    /\ last.op = "deliver"
    /\ IsGetReply(last.rx)

\* C3: an entity has _awaiting_update set exactly while one of its async_update
\* calls holds the bus lock and has not returned, and the flag is clear right
\* after any return of async_update (normal, timeout or exception).
C3_AwaitingIffHolding ==
    /\ \A d \in Devices : awaiting[d] <=> (locked /\ \E i \in Holders : calls[i].dev = d)
    /\ last.op = "update_return" => ~awaiting[last.dev]

\* a call has just timed out while a second call on the same entity is queued
C3_Witness ==
    /\ last.op = "update_return"
    /\ last.result = "timeout"
    /\ \E i \in Queued : calls[i].dev = last.dev
    /\ ~awaiting[last.dev]

\* C4: a GET reply delivered while no entity is awaiting changes no entity's
\* is_on, _awaiting_update or event, and runs no is_on setter.
C4_UnsolicitedReplyDropped ==
    [][(last'.op = "deliver" /\ IsGetReply(last'.rx) /\ \A d \in Devices : ~awaiting[d])
        => (is_on' = is_on /\ awaiting' = awaiting /\ event' = event
            /\ last'.notified = {})]_vars

\* a GET reply carrying state 1 has been delivered with nobody awaiting, and
\* every entity is still off with its event unset
C4_Witness ==
    /\ last.op = "deliver"
    /\ last.rx = Msg(GET_REPLY_ID, <<1>>)
    /\ \A d \in Devices : ~awaiting[d] /\ ~is_on[d] /\ ~event[d]

\* C5: a reply to SET with payload [m, r, s] sets is_on to (s = 1) on exactly
\* the entities configured with (m, r), leaves is_on of the others alone, and
\* changes no _awaiting_update, no event and no async_update call's position.
C5_SetReplyEffect ==
    [][(last'.op = "deliver" /\ IsSetReply(last'.rx))
        => (/\ \A d \in Devices :
                 is_on'[d] = IF <<last'.rx.data[1], last'.rx.data[2]>> = <<Module(d), Relay(d)>>
                             THEN last'.rx.data[3] = 1
                             ELSE is_on[d]
            /\ last'.notified = {d \in Devices :
                 <<last'.rx.data[1], last'.rx.data[2]>> = <<Module(d), Relay(d)>>}
            /\ awaiting' = awaiting /\ event' = event
            /\ calls' = calls /\ locked' = locked)]_vars

\* the reply to SET (1, 0, on) has been delivered while the entity (1, 0) is
\* in an async_update that still waits for its GET reply: it is on, the other
\* entity is not, and the call still waits
C5_Witness ==
    /\ last.op = "deliver"
    /\ last.rx = Msg(SET_REPLY_ID, <<1, 0, 1>>)
    /\ is_on[1] /\ ~is_on[2]
    /\ \E i \in DOMAIN calls : calls[i].pc = "wait" /\ calls[i].dev = 1 /\ ~event[1]

\* C6: when async_update returns on an entity that never got a GET reply (its
\* event was never set), it did not succeed, and it timed out if the query
\* had been sent; the entity is not awaiting, the lock is free and the first
\* queued call has been woken; and the lock is next taken by that call.
C6_TimeoutReleases ==
    [][/\ (last'.op = "update_return" /\ ~event'[last'.dev])
          => (/\ last'.result # "ok"
              /\ calls[last'.call].pc = "wait" => last'.result = "timeout"
              /\ ~awaiting'[last'.dev]
              /\ ~locked'
              /\ QueuedIn(calls') # {} => calls'[FirstIn(QueuedIn(calls'))].pc = "woken")
       /\ (~locked /\ locked' /\ Queued # {})
          => (/\ calls'[FirstIn(Queued)].pc = "sleep1"
              /\ awaiting'[calls[FirstIn(Queued)].dev])]_vars

\* a call on an entity that never got a reply has just timed out, and a call
\* on the other entity is first in the queue and woken
C6_Witness ==
    /\ last.op = "update_return"
    /\ last.result = "timeout"
    /\ ~event[last.dev]
    /\ ~locked
    /\ Queued # {}
    /\ calls[FirstIn(Queued)].dev # last.dev
    /\ calls[FirstIn(Queued)].pc = "woken"

\* C7: a GET reply delivered while entity D is awaiting sets D's is_on to
\* (first byte = 1) and D's event and changes no other entity's is_on; and the
\* async_update of D then returns successfully, not awaiting, lock released.
C7_ReplyThenSuccess ==
    [][/\ (last'.op = "deliver" /\ IsGetReply(last'.rx))
          => \A d \in Devices : awaiting[d] =>
                /\ is_on'[d] = (last'.rx.data[1] = 1)
                /\ event'[d]
                /\ \A e \in Devices \ {d} : is_on'[e] = is_on[e]
       /\ (/\ last.op = "deliver" /\ IsGetReply(last.rx)
           /\ last'.op = "update_return" /\ last'.dev \in last.notified)
          => (last'.result = "ok" /\ ~awaiting'[last'.dev] /\ ~locked')]_vars

\* C8: turn_on followed by the delivery of the reply to SET [module, relay, 1]
\* leaves the entity on, and turn_off followed by [module, relay, 0] leaves it
\* off.
C8_RoundTrip ==
    \A d \in Devices :
        /\ (/\ last.op = "deliver" /\ last.after = <<"turn_on", d>>
            /\ last.rx = Msg(SET_REPLY_ID, <<Module(d), Relay(d), 1>>)) => is_on[d]
        /\ (/\ last.op = "deliver" /\ last.after = <<"turn_off", d>>
            /\ last.rx = Msg(SET_REPLY_ID, <<Module(d), Relay(d), 0>>)) => ~is_on[d]

\* turn_on of entity (1, 0) was followed by its acknowledgement: it is on,
\* while the other entity is off
C8_Witness ==
    /\ last.op = "deliver"
    /\ last.after = <<"turn_on", 1>>
    /\ last.rx = Msg(SET_REPLY_ID, <<1, 0, 1>>)
    /\ is_on[1] /\ ~is_on[2]

\* C9: turn_on and turn_off can run in every state, whoever holds the bus
\* lock, and they neither take the lock nor join or reorder its queue.
C9_TurnNeverBlocks ==
    /\ [](\A d \in Devices, ok \in BOOLEAN : ENABLED TurnOn(d, ok) /\ ENABLED TurnOff(d, ok))
    /\ [][last'.op \in {"turn_on", "turn_off"}
            => (locked' = locked /\ calls' = calls)]_vars

\* turn_on was sent for an entity whose own async_update holds the lock and
\* waits for its reply
C9_Witness ==
    /\ last.op = "turn_on"
    /\ last.result = "ok"
    /\ locked
    /\ \E i \in DOMAIN calls : calls[i].pc = "wait" /\ calls[i].dev = last.dev

\* C10: turn_on / turn_off put one frame on the bus, with id 0x01FC0002 |
\* module << 8 and payload [module, relay, state, 0xFF, 0xFF], or raise the
\* send fault and put none; either way no entity's is_on, _awaiting_update or
\* event changes and no call is left suspended. is_on changes only when a
\* delivered frame is accepted by the entity.
C10_TurnSendsOnly ==
    [][/\ last'.op \in {"turn_on", "turn_off"}
          => (/\ last'.result \in {"ok", "fault"}
              /\ last'.result = "ok" =>
                    last'.tx = Msg(SET_BASE_ID + 256 * Module(last'.dev),
                                   <<Module(last'.dev), Relay(last'.dev),
                                     IF last'.op = "turn_on" THEN 1 ELSE 0, FILL, FILL>>)
              /\ last'.result = "fault" => last'.tx = NoMsg
              /\ is_on' = is_on /\ awaiting' = awaiting /\ event' = event
              /\ calls' = calls)
       /\ \A d \in Devices :
             is_on'[d] # is_on[d] => (last'.op = "deliver" /\ d \in last'.notified)]_vars

\* turn_off failed with a send fault on an entity that is on and stays on
C10_Witness ==
    /\ last.op = "turn_off"
    /\ last.result = "fault"
    /\ last.tx = NoMsg
    /\ is_on[last.dev]

\* the step is the return of call i of async_update with the given result
Returns(i, result) ==
    /\ i \in DOMAIN calls
    /\ calls[i].pc \in {"sleep1", "wait", "sleep2"}
    /\ last'.op = "update_return"
    /\ last'.call = i
    /\ last'.result = result

\* C11 as stated: when async_update ends by the reply timeout, the entity's
\* is_on equals its value when the body was entered, the caller gets the
\* fault and the lock is released.
C11_TimeoutKeepsEntryState ==
    [][\A i \in DOMAIN calls :
          Returns(i, "timeout")
          => (/\ is_on'[calls[i].dev] = calls[i].was_on
              /\ locked /\ ~locked')]_vars

\* C11, amended: the timeout exit itself changes no entity's is_on (a reply to
\* SET delivered during the cycle may have changed it since the entry); the
\* caller gets the timeout fault, _awaiting_update is cleared, the lock is
\* released and the entity has accepted no GET reply.
C11_TimeoutLeavesState ==
    [][\A i \in DOMAIN calls :
          Returns(i, "timeout")
          => (/\ calls[i].pc = "wait"
              /\ is_on' = is_on
              /\ event' = event /\ ~event[calls[i].dev]
              /\ ~awaiting'[calls[i].dev]
              /\ locked /\ ~locked')]_vars

\* a call has timed out on an entity that is on, though it was off at the
\* entry: a reply to SET switched it on during the cycle
C11_Witness ==
    /\ last.op = "update_return"
    /\ last.result = "timeout"
    /\ is_on[last.dev]
    /\ ~event[last.dev]

\* the calls other than i are still in progress after the return of call i,
\* each on its entity and where it was, but for the waiter that was woken
OthersKept(i) ==
    /\ Len(calls') = Len(calls) - 1
    /\ \A j \in DOMAIN calls' :
          LET k == IF j < i THEN j ELSE j + 1
          IN /\ calls'[j].dev = calls[k].dev
             /\ calls'[j].was_on = calls[k].was_on
             /\ \/ calls'[j].pc = calls[k].pc
                \/ calls[k].pc = "lockwait" /\ calls'[j].pc = "woken"

\* C12: when bus.send of the query fails inside async_update, only that call
\* returns, with the fault and no frame sent; its entity's _awaiting_update is
\* cleared and no other entity's changes, no is_on and no event changes, the
\* lock held before is free after, and the next call can take it: the first
\* waiter, if any, has been woken.
C12_SendFaultCleansUp ==
    [][\A i \in DOMAIN calls :
          Returns(i, "fault")
          => (/\ calls[i].pc = "sleep1"
              /\ last'.tx = NoMsg
              /\ is_on' = is_on /\ event' = event
              /\ awaiting' = [awaiting EXCEPT ![calls[i].dev] = FALSE]
              /\ locked /\ ~locked'
              /\ OthersKept(i)
              /\ QueuedIn(calls') # {} => calls'[FirstIn(QueuedIn(calls'))].pc = "woken"
              /\ QueuedIn(calls') = {} => calls' = <<>>)]_vars

\* a call returned with the send fault while two others wait for the lock,
\* the first of them woken, and an entity is on
C12_Witness ==
    /\ last.op = "update_return"
    /\ last.result = "fault"
    /\ ~locked
    /\ Len(calls) = 2
    /\ calls[1].pc = "woken"
    /\ calls[2].pc = "lockwait"
    /\ \E d \in Devices : is_on[d]

\* the step is bus.send of the GET query by call i
Sends(i) ==
    /\ i \in DOMAIN calls
    /\ calls[i].pc = "sleep1"
    /\ last'.op = "update_send"
    /\ last'.call = i

\* C13 as stated: a GET query is sent only when every query sent before has
\* had a GET reply accepted or has run into its reply timeout.
C13_OneQueryOutstanding ==
    [][\A i \in DOMAIN calls : Sends(i) => ~outstanding]_vars

\* C14 as stated: at the start of every cycle of async_update the entity's
\* event is unset, so that wait_for waits for a reply of this cycle.
C14_EventUnsetAtEntry ==
    last.op = "update_enter" => ~event[last.dev]

\* the step hands a GET reply to the entities and entity d accepts it
AcceptsGetReply(d) ==
    /\ last'.op = "deliver"
    /\ IsGetReply(last'.rx)
    /\ d \in last'.notified

\* C15 as stated: once an entity has accepted a GET reply after its query, a
\* second GET reply delivered before async_update returns is not accepted
\* and changes no is_on.
C15_SecondReplyIgnored ==
    [][\A i \in DOMAIN calls :
          (/\ calls[i].pc = "wait"
           /\ last.op = "deliver" /\ IsGetReply(last.rx)
           /\ calls[i].dev \in last.notified)
          => (/\ ~AcceptsGetReply(calls[i].dev)
              /\ (last'.op = "deliver" /\ IsGetReply(last'.rx)) => is_on' = is_on)]_vars

\* C16 as stated: an entity accepts a GET reply only after it has sent the
\* query of its current cycle.
C16_ReplyAfterOwnQuery ==
    [][\A d \in Devices :
          AcceptsGetReply(d)
          => \E i \in DOMAIN calls : calls[i].dev = d /\ calls[i].pc \in {"wait", "sleep2"}]_vars

\* C17: when the event loop runs every ready task and every wait_for either
\* sees its event or times out, every async_update returns and every waiter
\* acquires the lock: the lock is free again and again, and again and again
\* it is held or no call is in progress; the call that returns is always the
\* oldest, the only one past the queue of the lock. _awaiting_update is not
\* stuck either: it is set only while the lock is held.
C17_Progress ==
    /\ []<>(~locked)
    /\ []<>(locked \/ calls = <<>>)
    /\ [](\A i \in DOMAIN calls : calls[i].pc # "lockwait" => i = 1)
    /\ [](last.op = "update_return" => last.call = 1)
    /\ [](\A d \in Devices : awaiting[d] => locked)

\* the holder waits for a reply that has never come, two calls queue behind
C17_Witness ==
    /\ Len(calls) = 3
    /\ calls[1].pc = "wait"
    /\ ~event[calls[1].dev]
    /\ calls[2].pc = "lockwait"
    /\ calls[3].pc = "lockwait"
    /\ calls[3].dev # calls[1].dev

\* the address pair of entity d
Address(d) == <<Module(d), Relay(d)>>

\* C18: every delivered frame reaches every entity, in the order of arrival:
\* after any sequence of replies to SET with no async_update in progress,
\* is_on of each entity is (state byte = 1) of the last reply whose module
\* and relay bytes are the entity's, and False when there was none.
C18_LastAckWins ==
    \A d \in Devices : is_on[d] = (acks[Address(d)] = 1)

\* replies to SET have arrived for both entities and for an address that is
\* not configured; the last for the first entity said on, the last for the
\* second said off
C18_Witness ==
    /\ acks[Address(1)] = 1
    /\ acks[Address(2)] = 0
    /\ acks[Unconfigured] = 1
    /\ is_on[1]
    /\ ~is_on[2]
    /\ last.op = "deliver"
    /\ last.notified = {}

\* C19: a frame whose id is neither 0x0002FF01 nor 0x01FDFF01, the echo of
\* the program's own SET and GET frames included, is stopped by the filter
\* and changes no entity's is_on, _awaiting_update or event, whatever the
\* state, and disturbs no call of async_update.
C19_OtherFramesIgnored ==
    [][(/\ last'.op \in {"deliver", "filtered"}
        /\ last'.rx.id \notin {SET_REPLY_ID, GET_REPLY_ID})
       => (/\ last'.op = "filtered"
           /\ last'.notified = {}
           /\ is_on' = is_on /\ awaiting' = awaiting /\ event' = event
           /\ locked' = locked /\ calls' = calls)]_vars

\* the echo of its own GET query arrives while the first entity waits for
\* the reply
C19_Witness ==
    /\ last.op = "filtered"
    /\ last.rx = Msg(GET_ID, BytesStatus(1))
    /\ calls # <<>>
    /\ calls[1].dev = 1
    /\ calls[1].pc = "wait"
    /\ awaiting[1]
    /\ ~event[1]

\* C20 as stated: once stop() has run, no frame is handed to any entity and
\* no entity's is_on changes.
C20_NoDispatchAfterStop ==
    [][closed => (last'.op # "deliver" /\ is_on' = is_on)]_vars
====
